---- MODULE Spec2Model ----
(***************************************************************************)
(* Model of the mint API (src/src/server.ts, src/src/clients.ts): the      *)
(* retry helper, the circuit breaker, the response cache, the request      *)
(* pipeline of POST /mint and the mint workflow.                           *)
(*                                                                         *)
(* Time is in milliseconds (Date.now()).  Strings are sequences of         *)
(* one-character strings.                                                  *)
(***************************************************************************)
EXTENDS Integers, Sequences, FiniteSets, TLC

\* ------------------------------------------------------------------------
\* Configuration (server.ts 74-84, clients.ts 65-66)
\* ------------------------------------------------------------------------
CACHE_TTL == 3600
CIRCUIT_BREAKER_THRESHOLD == 10
CIRCUIT_BREAKER_RESET_TIME == 300000
MAX_RETRIES == 3
INITIAL_RETRY_DELAY == 1000
CLIENT_MAX_RETRIES == 3
RETRY_DELAY == 1000

\* ------------------------------------------------------------------------
\* Bounds of the model
\* ------------------------------------------------------------------------
\* largest maxRetries argument tried on retry() in SpecRetry
MaxRetriesArg == 4
\* largest clock reading
MaxNow == 300002
\* most recordFailure() calls between two resets in SpecBreaker
MaxRecorded == 12
\* longest email and phone string drawn letter by letter in SpecValidate
MaxStrLen == 6
\* most digits after the "+" of a phone string in SpecValidate
MaxPhoneDigits == 17
\* how far past the TTL of the cache the clock of SpecCache runs
MaxPastTTL == 2

\* the value of a variable that was never assigned
Undefined == <<"undefined", 0>>

VARIABLES
  now,             \* Date.now()
  circuitBreaker,  \* the CircuitBreaker instance: failures, lastFailure, isOpen
  cache,           \* the NodeCache instance
  pregen,          \* custodial service: pregenerated wallets made per identifier
  shares,          \* share store: the rows of user_shares per identifier
  userOps,         \* relay: user operations accepted per identifier
  pc,              \* per request: the await it is suspended at
  req,             \* per request: req.body and the locals of the handler
  resp,            \* per request: the response sent
  watch,           \* the remote call whose invocations are counted
  calls,           \* per request: invocations made of the watched call
  consecFail,      \* n: requests in a row that ended in a downstream
                   \* failure; t: when the first of them ended
  br,              \* SpecBreaker: what the caller of the breaker has seen
  rIn,             \* SpecRetry: the arguments of one retry() call
  rOut             \* SpecRetry: <<>> before the call, then <<its outcome>>

mintVars ==
  <<cache, pregen, shares, userOps, pc, req, resp, calls, watch, consecFail>>
vars == <<now, circuitBreaker, mintVars, br, rIn, rOut>>

\* ------------------------------------------------------------------------
\* CircuitBreaker (server.ts 118-146)
\* ------------------------------------------------------------------------
\* the instance constructed at time t (lines 119-121)
NewCircuitBreaker(t) == [failures |-> 0, lastFailure |-> t, isOpen |-> FALSE]

reset_KeepsCounter(cb) == [cb EXCEPT !.isOpen = FALSE]

\* reset() (lines 142-145)
reset(cb) == [cb EXCEPT !.failures = 0, !.isOpen = FALSE]

recordFailure_OpensAtThreshold(cb, t) ==
  [failures |-> cb.failures + 1,
   lastFailure |-> t,
   isOpen |-> IF cb.failures + 1 >= CIRCUIT_BREAKER_THRESHOLD
              THEN TRUE ELSE cb.isOpen]

\* recordFailure() at time t (lines 134-140)
recordFailure(cb, t) ==
  [failures |-> cb.failures + 1,
   lastFailure |-> t,
   isOpen |-> IF cb.failures + 1 > CIRCUIT_BREAKER_THRESHOLD
              THEN TRUE ELSE cb.isOpen]

\* after the reset time the flag is cleared and the counter is kept
isCircuitOpen_KeepsCounter(cb, t) ==
  IF cb.isOpen
  THEN IF t - cb.lastFailure > CIRCUIT_BREAKER_RESET_TIME
       THEN [ret |-> FALSE, cb |-> [cb EXCEPT !.isOpen = FALSE]]
       ELSE [ret |-> TRUE, cb |-> cb]
  ELSE [ret |-> FALSE, cb |-> cb]

\* isCircuitOpen() at time t (lines 123-132): the value returned and the
\* instance after the call
\* an open breaker is closed at the first check, whatever the time
isCircuitOpen_IgnoresTime(cb, t) ==
  IF cb.isOpen
  THEN [ret |-> FALSE, cb |-> reset(cb)]
  ELSE [ret |-> FALSE, cb |-> cb]

isCircuitOpen(cb, t) ==
  IF cb.isOpen
  THEN IF t - cb.lastFailure > CIRCUIT_BREAKER_RESET_TIME
       THEN [ret |-> FALSE, cb |-> reset(cb)]
       ELSE [ret |-> TRUE, cb |-> cb]
  ELSE [ret |-> FALSE, cb |-> cb]

\* ------------------------------------------------------------------------
\* Strings
\* ------------------------------------------------------------------------
WhiteSpace == {" "}
Digits == {"0", "1", "2", "3", "4", "5", "6", "7", "8", "9"}

UpperToLower ==
  [c \in {"A", "B", "C", "E", "M", "U", "X"} |->
     CASE c = "A" -> "a" [] c = "B" -> "b" [] c = "C" -> "c" [] c = "E" -> "e"
       [] c = "M" -> "m" [] c = "U" -> "u" [] c = "X" -> "x"]

\* String.prototype.toLowerCase on the letters the model uses
toLowerCase(str) ==
  [i \in 1..Len(str) |->
     IF str[i] \in DOMAIN UpperToLower THEN UpperToLower[str[i]] ELSE str[i]]

RECURSIVE TrimStart(_)
TrimStart(str) ==
  IF str # <<>> /\ str[1] \in WhiteSpace THEN TrimStart(Tail(str)) ELSE str

RECURSIVE TrimEnd(_)
TrimEnd(str) ==
  IF str # <<>> /\ str[Len(str)] \in WhiteSpace
  THEN TrimEnd(SubSeq(str, 1, Len(str) - 1)) ELSE str

\* String.prototype.trim
trim(str) == TrimEnd(TrimStart(str))

\* every character of str[from..to] is outside \s and is not "@", and there
\* is at least one: the pattern [^\s@]+
NoSpaceNoAt(str, from, to) ==
  /\ from <= to
  /\ \A i \in from..to : str[i] \notin WhiteSpace /\ str[i] # "@"

\* isValidEmail (server.ts 151-154): /^[^\s@]+@[^\s@]+\.[^\s@]+$/
isValidEmail(email) ==
  \E at \in 1..Len(email) : \E dot \in 1..Len(email) :
    /\ email[at] = "@"
    /\ email[dot] = "."
    /\ at < dot
    /\ NoSpaceNoAt(email, 1, at - 1)
    /\ NoSpaceNoAt(email, at + 1, dot - 1)
    /\ NoSpaceNoAt(email, dot + 1, Len(email))

\* the first digit may be any digit: /^\+\d{2,15}$/
isValidPhone_AnyFirstDigit(phone) ==
  /\ Len(phone) >= 3
  /\ Len(phone) <= 16
  /\ phone[1] = "+"
  /\ \A i \in 2..Len(phone) : phone[i] \in Digits

\* isValidPhone (server.ts 156-159): /^\+[1-9]\d{1,14}$/
isValidPhone(phone) ==
  /\ Len(phone) >= 3
  /\ Len(phone) <= 16
  /\ phone[1] = "+"
  /\ phone[2] \in Digits \ {"0"}
  /\ \A i \in 3..Len(phone) : phone[i] \in Digits

\* ------------------------------------------------------------------------
\* Requests and responses
\* ------------------------------------------------------------------------
\* A request body: the email and phone fields; <<>> is a field that is
\* missing or empty (both are falsy).
Truthy(str) == str # <<>>

\* email || phone
Identifier(body) == IF Truthy(body.email) THEN body.email ELSE body.phone

\* performMint 250-252
IdentifierType(body) == IF Truthy(body.email) THEN "EMAIL" ELSE "PHONE"

NoResult == [status |-> "none", identifier |-> <<>>, identifierType |-> "none",
             walletAddress |-> <<>>, operationHash |-> <<>>]

NoError == [name |-> "none", module |-> "none", attempt |-> -1]

\* what res.status(..).json(..) sent: status 0 is "nothing sent yet".
\* sentBy names the function that sent it, cause the error it classified,
\* cbBefore the breaker as it was when the step that sent it began.
NoBreaker == [failures |-> -1, lastFailure |-> -1, isOpen |-> FALSE]

NoResponse == [status |-> 0, error |-> "", retryAfter |-> 0,
               result |-> NoResult, sentBy |-> "none", cause |-> NoError,
               cbBefore |-> NoBreaker]

Respond(status, error, retryAfter, sentBy) ==
  [status |-> status, error |-> error, retryAfter |-> retryAfter,
   result |-> NoResult, sentBy |-> sentBy, cause |-> NoError,
   cbBefore |-> NoBreaker]

RespondResult(result, sentBy) ==
  [status |-> 200, error |-> "", retryAfter |-> 0,
   result |-> result, sentBy |-> sentBy, cause |-> NoError,
   cbBefore |-> NoBreaker]

\* validateRequest (server.ts 162-198): next is TRUE when next() is called,
\* with the normalised body; otherwise res is the response sent
validateRequest(body) ==
  IF ~Truthy(body.email) /\ ~Truthy(body.phone)
  THEN [next |-> FALSE, body |-> body,
        res |-> Respond(400, "Either email or phone is required", 0,
                        "validateRequest")]
  ELSE IF Truthy(body.email) /\ ~isValidEmail(body.email)
  THEN [next |-> FALSE, body |-> body,
        res |-> Respond(400, "Invalid email format", 0, "validateRequest")]
  ELSE LET b1 == IF Truthy(body.email)
                 THEN [body EXCEPT !.email = trim(toLowerCase(body.email))]
                 ELSE body
       IN IF Truthy(b1.phone) /\ ~isValidPhone(b1.phone)
          THEN [next |-> FALSE, body |-> b1,
                res |-> Respond(400, "Invalid phone format", 0,
                                "validateRequest")]
          ELSE [next |-> TRUE,
                body |-> IF Truthy(b1.phone)
                         THEN [b1 EXCEPT !.phone = trim(b1.phone)] ELSE b1,
                res |-> NoResponse]

\* ------------------------------------------------------------------------
\* The response cache (server.ts 102-106, node-cache with stdTTL CACHE_TTL)
\* ------------------------------------------------------------------------
\* cache is a function from the keys present to [v: value, t: expiry time]
CacheKey(identifier) == <<"m", "i", "n", "t", ":">> \o identifier

\* an entry that stays for ever
CacheLive_NeverExpires(c, key, t) == key \in DOMAIN c

\* an entry is live until the clock passes its expiry time
CacheLive(c, key, t) == key \in DOMAIN c /\ ~(c[key].t < t)

\* cache.get(key) at time t: the value, or NoResult for undefined
CacheGet(c, key, t) == IF CacheLive(c, key, t) THEN c[key].v ELSE NoResult

\* the cache after cache.get(key) at time t: an expired entry is deleted
CacheAfterGet(c, key, t) ==
  IF key \in DOMAIN c /\ ~CacheLive(c, key, t)
  THEN [k \in DOMAIN c \ {key} |-> c[k]] ELSE c

\* cache.set(key, v) at time t
CacheSet(c, key, v, t) ==
  [k \in DOMAIN c \cup {key} |->
     IF k = key THEN [v |-> v, t |-> t + CACHE_TTL * 1000] ELSE c[k]]

\* cacheMiddleware (server.ts 200-224) at time t: hit is TRUE when the cached
\* result is sent, otherwise next() is called
cacheMiddleware(c, body, t) ==
  LET identifier == Identifier(body)
      cachedResult == CacheGet(c, CacheKey(identifier), t)
  IN IF ~Truthy(identifier)
     THEN [hit |-> FALSE, res |-> NoResponse, cache |-> c]
     ELSE IF cachedResult # NoResult
     THEN [hit |-> TRUE, res |-> RespondResult(cachedResult, "cacheMiddleware"),
           cache |-> c]
     ELSE [hit |-> FALSE, res |-> NoResponse,
           cache |-> CacheAfterGet(c, CacheKey(identifier), t)]

circuitBreakerMiddleware_RecordsRejection(cb, t) ==
  LET open == isCircuitOpen(cb, t)
  IN IF open.ret
     THEN [next |-> FALSE, cb |-> recordFailure(open.cb, t),
           res |-> Respond(503, "Service temporarily unavailable",
                           CIRCUIT_BREAKER_RESET_TIME \div 1000,
                           "circuitBreakerMiddleware")]
     ELSE [next |-> TRUE, cb |-> open.cb, res |-> NoResponse]

\* circuitBreakerMiddleware (server.ts 226-240) at time t
circuitBreakerMiddleware(cb, t) ==
  LET open == isCircuitOpen(cb, t)
  IN IF open.ret
     THEN [next |-> FALSE, cb |-> open.cb,
           res |-> Respond(503, "Service temporarily unavailable",
                           CIRCUIT_BREAKER_RESET_TIME \div 1000,
                           "circuitBreakerMiddleware")]
     ELSE [next |-> TRUE, cb |-> open.cb, res |-> NoResponse]

\* the route with the breaker check ahead of the cache lookup
mintRoute_BreakerFirst(body, c, cb, t) ==
  LET v == validateRequest(body)
      k == cacheMiddleware(c, v.body, t)
      b == circuitBreakerMiddleware(cb, t)
  IN IF ~v.next
     THEN [next |-> FALSE, res |-> v.res, body |-> v.body, cache |-> c,
           cb |-> cb]
     ELSE IF ~b.next
     THEN [next |-> FALSE, res |-> b.res, body |-> v.body, cache |-> c,
           cb |-> b.cb]
     ELSE IF k.hit
     THEN [next |-> FALSE, res |-> k.res, body |-> v.body, cache |-> k.cache,
           cb |-> b.cb]
     ELSE [next |-> TRUE, res |-> NoResponse, body |-> v.body,
           cache |-> k.cache, cb |-> b.cb]

\* app.post("/mint", limiter, validateRequest, cacheMiddleware,
\* circuitBreakerMiddleware, mintHandler) (server.ts 442-449), for a request
\* the limiter lets through: the middlewares run in order up to the first one
\* that responds; next is TRUE when mintHandler is entered
mintRoute(body, c, cb, t) ==
  LET v == validateRequest(body)
      k == cacheMiddleware(c, v.body, t)
      b == circuitBreakerMiddleware(cb, t)
  IN IF ~v.next
     THEN [next |-> FALSE, res |-> v.res, body |-> v.body, cache |-> c,
           cb |-> cb]
     ELSE IF k.hit
     THEN [next |-> FALSE, res |-> k.res, body |-> v.body, cache |-> k.cache,
           cb |-> cb]
     ELSE IF ~b.next
     THEN [next |-> FALSE, res |-> b.res, body |-> v.body, cache |-> k.cache,
           cb |-> b.cb]
     ELSE [next |-> TRUE, res |-> NoResponse, body |-> v.body,
           cache |-> k.cache, cb |-> b.cb]

\* ------------------------------------------------------------------------
\* The state of the mint service
\* ------------------------------------------------------------------------
\* the requests that can be in flight together
Reqs == {1}

\* the request bodies clients send
Bodies ==
  { [email |-> <<"A", "@", "b", ".", "c">>, phone |-> <<>>],
    [email |-> <<>>, phone |-> <<"+", "1", "2">>],
    [email |-> <<>>, phone |-> <<"1", "2">>],
    [email |-> <<>>, phone |-> <<>>] }

\* the identifiers of the bodies that pass validation
Identifiers ==
  { Identifier(validateRequest(b).body) :
      b \in {x \in Bodies : validateRequest(x).next} }

CallNames ==
  {"getWallets", "hasPregenWallet", "createWalletPreGen", "getUserShare",
   "storeUserShare", "getUserShareFromDatabase", "setUserShare",
   "getWalletsAfterSetUserShare", "createModularAccountAlchemyClient",
   "signMessage", "sendUserOperation"}

NoBody == [email |-> <<>>, phone |-> <<>>]

\* raw: the body as received; body: req.body; attempt, lastError: the locals
\* of performMint; wallet: the wallet of the current attempt; waits: the
\* delays performMint awaited between attempts; seq flips at each request;
\* overlap: mintHandler ran for this request while it ran for another
\* request with the same identifier; callsBefore: the invocations of the
\* watched call made before the current attempt began
NewReq == [raw |-> NoBody, body |-> NoBody, attempt |-> 0, wallet |-> <<>>,
           lastError |-> NoError, waits |-> <<>>, seq |-> 0,
           overlap |-> FALSE, callsBefore |-> 0]

InitMintVars ==
  /\ cache = <<>>
  /\ pregen = [i \in Identifiers |-> 0]
  /\ shares = [i \in Identifiers |-> {}]
  /\ userOps = [i \in Identifiers |-> 0]
  /\ pc = [r \in Reqs |-> "idle"]
  /\ req = [r \in Reqs |-> NewReq]
  /\ resp = [r \in Reqs |-> NoResponse]
  /\ watch = "none"
  /\ calls = [r \in Reqs |-> 0]
  /\ consecFail = [n |-> 0, t |-> 0]

\* ------------------------------------------------------------------------
\* The clock
\* ------------------------------------------------------------------------
\* the clock advances tried: exactly the reset time of the breaker, and just
\* past it
TickSteps == {CIRCUIT_BREAKER_RESET_TIME, CIRCUIT_BREAKER_RESET_TIME + 1}
MintTickSteps == {CIRCUIT_BREAKER_RESET_TIME + 1}

\* ------------------------------------------------------------------------
\* SpecBreaker: the methods of one CircuitBreaker called in any order
\* ------------------------------------------------------------------------
\* br.recorded: recordFailure() calls since the breaker was last reset;
\* br.tLast: time of the last recordFailure() call; br.op, br.ret: the last
\* call and, for isCircuitOpen(), its value; br.before: br.recorded before the
\* last call; br.seq: flips at each isCircuitOpen() call.
InitBr == [recorded |-> 0, tLast |-> 0, op |-> "new", ret |-> FALSE,
           before |-> 0, seq |-> 0]

InitBreaker ==
  /\ now = 0
  /\ circuitBreaker = NewCircuitBreaker(0)
  /\ InitMintVars
  /\ br = InitBr
  /\ rIn = [operation |-> <<>>, maxRetries |-> 0, retryDelay |-> 0]
  /\ rOut = <<>>

Tick(d) ==
  /\ now + d <= MaxNow
  /\ now' = now + d
  /\ UNCHANGED <<circuitBreaker, mintVars, br, rIn, rOut>>

BrRecordFailure ==
  /\ br.recorded < MaxRecorded
  /\ circuitBreaker' = recordFailure(circuitBreaker, now)
  /\ br' = [br EXCEPT !.recorded = @ + 1, !.tLast = now,
                      !.op = "recordFailure", !.before = br.recorded]
  /\ UNCHANGED <<now, mintVars, rIn, rOut>>

BrReset ==
  /\ circuitBreaker' = reset(circuitBreaker)
  /\ br' = [br EXCEPT !.recorded = 0, !.op = "reset", !.before = br.recorded]
  /\ UNCHANGED <<now, mintVars, rIn, rOut>>

BrIsCircuitOpen ==
  LET res == isCircuitOpen(circuitBreaker, now)
  IN /\ circuitBreaker' = res.cb
     /\ br' = [br EXCEPT
                 !.recorded = IF br.recorded > CIRCUIT_BREAKER_THRESHOLD
                                 /\ ~res.ret
                              THEN 0 ELSE @,
                 !.op = "isCircuitOpen", !.ret = res.ret,
                 !.before = br.recorded, !.seq = 1 - @]
     /\ UNCHANGED <<now, mintVars, rIn, rOut>>

NextBreaker ==
  \/ \E d \in TickSteps : Tick(d)
  \/ BrRecordFailure
  \/ BrReset
  \/ BrIsCircuitOpen

SpecBreaker == InitBreaker /\ [][NextBreaker]_vars

\* C3: isCircuitOpen() returns false while at most threshold failures have
\* been recorded since the last reset; once threshold+1 (or more) are
\* recorded it returns true for as long as no more than
\* CIRCUIT_BREAKER_RESET_TIME has elapsed since the last recorded failure,
\* and the first call after that returns false and zeroes the counter.
C3_Breaker ==
  [][ br'.seq # br.seq =>
        LET elapsed == now - br.tLast
        IN /\ br.recorded <= CIRCUIT_BREAKER_THRESHOLD => ~br'.ret
           /\ (br.recorded > CIRCUIT_BREAKER_THRESHOLD
               /\ elapsed <= CIRCUIT_BREAKER_RESET_TIME) =>
                 /\ br'.ret
                 /\ circuitBreaker' = circuitBreaker
           /\ (br.recorded > CIRCUIT_BREAKER_THRESHOLD
               /\ elapsed > CIRCUIT_BREAKER_RESET_TIME) =>
                 /\ ~br'.ret
                 /\ circuitBreaker'.failures = 0
                 /\ ~circuitBreaker'.isOpen ]_vars

\* a breaker that opened at exactly threshold+1 failures was found closed and
\* zeroed by a check made after the timeout
C3_Witness ==
  /\ br.op = "isCircuitOpen"
  /\ br.before = CIRCUIT_BREAKER_THRESHOLD + 1
  /\ ~br.ret
  /\ now - br.tLast > CIRCUIT_BREAKER_RESET_TIME
  /\ circuitBreaker.failures = 0

\* ------------------------------------------------------------------------
\* retry (clients.ts 72-95)
\* ------------------------------------------------------------------------
\* An operation is the sequence of the outcomes of its invocations:
\* operation[i] = [ok |-> did invocation i resolve, v |-> the value it
\* resolved to or the error it threw].
\* The loop of retry, from the given attempt on.  acc counts the invocations
\* made and lists the delays awaited so far.
RECURSIVE RetryLoop_OffByOne(_, _, _, _, _, _)
RetryLoop_OffByOne(operation, attempt, maxRetries, retryDelay, lastError, acc) ==
  IF ~(attempt < maxRetries)
  THEN [ok |-> FALSE, v |-> lastError, invocations |-> acc.n, waits |-> acc.w]
  ELSE IF operation[attempt].ok
  THEN [ok |-> TRUE, v |-> operation[attempt].v,
        invocations |-> acc.n + 1, waits |-> acc.w]
  ELSE IF attempt = maxRetries
  THEN [ok |-> FALSE, v |-> operation[attempt].v,
        invocations |-> acc.n + 1, waits |-> acc.w]
  ELSE RetryLoop_OffByOne(operation, attempt + 1, maxRetries, retryDelay,
                          operation[attempt].v,
                          [n |-> acc.n + 1, w |-> Append(acc.w, retryDelay)])

\* the loop without the break of line 84: a delay follows every failure
RECURSIVE RetryLoop_NoBreak(_, _, _, _, _, _)
RetryLoop_NoBreak(operation, attempt, maxRetries, retryDelay, lastError, acc) ==
  IF ~(attempt <= maxRetries)
  THEN [ok |-> FALSE, v |-> lastError, invocations |-> acc.n, waits |-> acc.w]
  ELSE IF operation[attempt].ok
  THEN [ok |-> TRUE, v |-> operation[attempt].v,
        invocations |-> acc.n + 1, waits |-> acc.w]
  ELSE RetryLoop_NoBreak(operation, attempt + 1, maxRetries, retryDelay,
                         operation[attempt].v,
                         [n |-> acc.n + 1, w |-> Append(acc.w, retryDelay)])

RECURSIVE RetryLoop(_, _, _, _, _, _)
RetryLoop(operation, attempt, maxRetries, retryDelay, lastError, acc) ==
  IF ~(attempt <= maxRetries)
  THEN \* line 94: throw lastError
       [ok |-> FALSE, v |-> lastError, invocations |-> acc.n, waits |-> acc.w]
  ELSE IF operation[attempt].ok
  THEN \* line 81: return await operation()
       [ok |-> TRUE, v |-> operation[attempt].v,
        invocations |-> acc.n + 1, waits |-> acc.w]
  ELSE IF attempt = maxRetries
  THEN \* line 84: break, then line 94
       [ok |-> FALSE, v |-> operation[attempt].v,
        invocations |-> acc.n + 1, waits |-> acc.w]
  ELSE \* line 90: await delay(retryDelay)
       RetryLoop(operation, attempt + 1, maxRetries, retryDelay,
                 operation[attempt].v,
                 [n |-> acc.n + 1, w |-> Append(acc.w, retryDelay)])

retry(operation, maxRetries, retryDelay) ==
  RetryLoop(operation, 1, maxRetries, retryDelay, Undefined,
            [n |-> 0, w |-> <<>>])

RECURSIVE Pow2(_)
Pow2(n) == IF n = 0 THEN 1 ELSE 2 * Pow2(n - 1)

\* ------------------------------------------------------------------------
\* The mint workflow (server.ts 243-413, clients.ts 97-345)
\* ------------------------------------------------------------------------
\* Each action is one await of the handler together with the synchronous
\* code that follows it.  A remote call under retry() is one action: the
\* invocations that throw leave the remote state as it was.

\* an operation whose first f invocations throw and whose later ones resolve
FailsThenResolves(f) ==
  [i \in 1..CLIENT_MAX_RETRIES |->
     [ok |-> i > f, v |-> IF i > f THEN <<"value", i>> ELSE <<"error", i>>]]

\* retry() giving up one invocation early
RetryDefault_TwoTries(f) ==
  retry(FailsThenResolves(f), CLIENT_MAX_RETRIES - 1, RETRY_DELAY)

\* retry(operation) with the default maxRetries and retryDelay
RetryDefault(f) == retry(FailsThenResolves(f), CLIENT_MAX_RETRIES, RETRY_DELAY)

\* the error classes: clients.ts 34-62 and server.ts 57-71 each declare
\* their own; "Error" is the built-in class
Err(name, module, attempt) ==
  [name |-> name, module |-> module, attempt |-> attempt]

\* error instanceof the class `name` declared in server.ts
InstanceOfServerClass(e, name) == e.name = name /\ e.module = "server"

\* INITIAL_RETRY_DELAY * Math.pow(2, attempt) (server.ts 318)
BackoffDelay_Constant(attempt) == INITIAL_RETRY_DELAY

BackoffDelay(attempt) == INITIAL_RETRY_DELAY * Pow2(attempt)

\* the catch of mintHandler after recordFailure() (server.ts 383-411)
ErrorResponse(e) ==
  IF InstanceOfServerClass(e, "CapsuleInitializationError")
  THEN [Respond(503, "Service temporarily unavailable",
                CIRCUIT_BREAKER_RESET_TIME \div 1000, "mintHandler.catch")
          EXCEPT !.cause = e]
  ELSE IF InstanceOfServerClass(e, "WalletOperationError")
  THEN [Respond(500, "Wallet operation failed", 60, "mintHandler.catch")
          EXCEPT !.cause = e]
  ELSE [Respond(500, "Failed to mint NFT",
                CIRCUIT_BREAKER_RESET_TIME \div 1000, "mintHandler.catch")
          EXCEPT !.cause = e]

\* one more request in a row ended in a downstream failure, at time t (the
\* count stops at threshold+1)
OneMoreFailed(c, t) ==
  [n |-> IF c.n > CIRCUIT_BREAKER_THRESHOLD THEN c.n ELSE c.n + 1,
   t |-> IF c.n = 0 THEN t ELSE c.t]

NoneFailed == [n |-> 0, t |-> 0]

\* the response as recorded for request r
Sent(res) == [res EXCEPT !.cbBefore = circuitBreaker]

\* n more invocations of the remote call `name` by request r
Counted(c, r, name, n) == IF watch = name THEN [c EXCEPT ![r] = @ + n] ELSE c

Count(r, name, n) == calls' = Counted(calls, r, name, n)

\* one attempt more than MAX_RETRIES
AttemptThrows_ExtraAttempt(r, e) ==
  IF req[r].attempt < MAX_RETRIES
  THEN /\ pc' = [pc EXCEPT ![r] = "backoff"]
       /\ req' = [req EXCEPT ![r].lastError = e,
                             ![r].waits = Append(@, BackoffDelay(req[r].attempt))]
       /\ UNCHANGED <<resp, circuitBreaker, consecFail>>
  ELSE /\ pc' = [pc EXCEPT ![r] = "done"]
       /\ req' = [req EXCEPT ![r].lastError = e]
       /\ circuitBreaker' = recordFailure(circuitBreaker, now)
       /\ resp' = [resp EXCEPT ![r] = Sent(ErrorResponse(e))]
       /\ consecFail' = OneMoreFailed(consecFail, now)

\* the current attempt of performMint throws e: the catch of lines 306-321
\* and, after the last attempt, line 324 and the catch of mintHandler
\* (lines 364-412)
AttemptThrows(r, e) ==
  IF req[r].attempt < MAX_RETRIES - 1
  THEN /\ pc' = [pc EXCEPT ![r] = "backoff"]
       /\ req' = [req EXCEPT ![r].lastError = e,
                             ![r].waits = Append(@, BackoffDelay(req[r].attempt))]
       /\ UNCHANGED <<resp, circuitBreaker, consecFail>>
  ELSE /\ pc' = [pc EXCEPT ![r] = "done"]
       /\ req' = [req EXCEPT ![r].lastError = e]
       /\ circuitBreaker' = recordFailure(circuitBreaker, now)
       /\ resp' = [resp EXCEPT ![r] = Sent(ErrorResponse(e))]
       /\ consecFail' = OneMoreFailed(consecFail, now)

\* the attempt goes on to its next await
Goto(r, label, wallet) ==
  /\ pc' = [pc EXCEPT ![r] = label]
  /\ req' = [req EXCEPT ![r].wallet = wallet]
  /\ UNCHANGED <<resp, circuitBreaker, consecFail>>

\* the requests inside mintHandler for the identifier of body, other than r
Overlapping(r, body) ==
  {q \in DOMAIN pc \ {r} :
     /\ pc[q] \notin {"idle", "done"}
     /\ Identifier(req[q].body) = Identifier(body)}

\* the route up to the first await of mintHandler
Receive(r, body) ==
  /\ pc[r] \in {"idle", "done"}
  /\ LET route == mintRoute(body, cache, circuitBreaker, now)
         others == IF route.next THEN Overlapping(r, route.body) ELSE {}
     IN /\ cache' = route.cache
        /\ circuitBreaker' = route.cb
        /\ req' = [q \in DOMAIN req |->
                    IF q = r
                    THEN [NewReq EXCEPT !.raw = body,
                                        !.body = route.body,
                                        !.seq = 1 - req[r].seq,
                                        !.overlap = others # {}]
                    ELSE IF q \in others
                    THEN [req[q] EXCEPT !.overlap = TRUE]
                    ELSE req[q]]
        /\ calls' = [calls EXCEPT ![r] = 0]
        /\ IF route.next
           THEN /\ pc' = [pc EXCEPT ![r] = "precheck"]
                /\ resp' = [resp EXCEPT ![r] = NoResponse]
                /\ UNCHANGED consecFail
           ELSE /\ pc' = [pc EXCEPT ![r] = "done"]
                /\ resp' = [resp EXCEPT ![r] = Sent(route.res)]
                /\ consecFail' = NoneFailed
  /\ UNCHANGED <<now, pregen, shares, userOps, watch, br, rIn, rOut>>

\* initializeCapsule() (clients.ts 97-127) when getWallets() throws in its
\* first f invocations
initializeCapsule(f, attempt) ==
  LET out == RetryDefault(f)
  IN [ok |-> out.ok, invocations |-> out.invocations,
      err |-> Err("CapsuleInitializationError", "clients", attempt)]

\* the 503 of the pre-check is sent without the return that follows it
Precheck_NoReturn(r, f) ==
  /\ pc[r] = "precheck"
  /\ LET init == initializeCapsule(f, -1)
     IN /\ Count(r, "getWallets", init.invocations)
        /\ pc' = [pc EXCEPT ![r] = "init"]
        /\ req' = [req EXCEPT ![r].callsBefore = calls'[r]]
        /\ UNCHANGED consecFail
        /\ IF init.ok
           THEN UNCHANGED resp
           ELSE resp' = [resp EXCEPT ![r] =
                     Sent([Respond(503, "Service initialization failed", 60,
                                   "mintHandler.precheck")
                             EXCEPT !.cause = init.err])]
  /\ UNCHANGED <<now, circuitBreaker, cache, pregen, shares, userOps,
                 watch, br, rIn, rOut>>

\* mintHandler 338-349: the session is initialised once before performMint
Precheck(r, f) ==
  /\ pc[r] = "precheck"
  /\ LET init == initializeCapsule(f, -1)
     IN /\ Count(r, "getWallets", init.invocations)
        /\ IF init.ok
           THEN /\ pc' = [pc EXCEPT ![r] = "init"]
                /\ req' = [req EXCEPT ![r].callsBefore = calls'[r]]
                /\ UNCHANGED <<resp, consecFail>>
           ELSE /\ pc' = [pc EXCEPT ![r] = "done"]
                /\ resp' = [resp EXCEPT ![r] =
                     Sent([Respond(503, "Service initialization failed", 60,
                                   "mintHandler.precheck")
                             EXCEPT !.cause = init.err])]
                /\ consecFail' = OneMoreFailed(consecFail, now)
                /\ UNCHANGED req
  /\ UNCHANGED <<now, circuitBreaker, cache, pregen, shares, userOps,
                 watch, br, rIn, rOut>>

\* performMint 260
AttemptInit(r, f) ==
  /\ pc[r] = "init"
  /\ LET init == initializeCapsule(f, req[r].attempt)
     IN /\ Count(r, "getWallets", init.invocations)
        /\ IF init.ok
           THEN Goto(r, "hasPregenWallet", <<>>)
           ELSE AttemptThrows(r, init.err)
  /\ UNCHANGED <<now, cache, pregen, shares, userOps, watch, br, rIn, rOut>>

\* every error of createOrGetPregenWallet leaves it as a WalletOperationError
\* of clients.ts (lines 217-231)
WalletError(r) == Err("WalletOperationError", "clients", req[r].attempt)

\* the wallet check answers false whatever the custodial service holds
HasPregenWallet_NeverFinds(r, f) ==
  /\ pc[r] = "hasPregenWallet"
  /\ LET out == RetryDefault(f)
     IN /\ Count(r, "hasPregenWallet", out.invocations)
        /\ IF ~out.ok THEN AttemptThrows(r, WalletError(r))
           ELSE Goto(r, "createWalletPreGen", <<>>)
  /\ UNCHANGED <<now, cache, pregen, shares, userOps, watch, br, rIn, rOut>>

\* createOrGetPregenWallet 157-166
HasPregenWallet(r, f) ==
  /\ pc[r] = "hasPregenWallet"
  /\ LET out == RetryDefault(f)
         hasWallet == pregen[Identifier(req[r].body)] > 0
     IN /\ Count(r, "hasPregenWallet", out.invocations)
        /\ IF ~out.ok THEN AttemptThrows(r, WalletError(r))
           ELSE IF ~hasWallet THEN Goto(r, "createWalletPreGen", <<>>)
           ELSE Goto(r, "getUserShareFromDatabase", <<>>)
  /\ UNCHANGED <<now, cache, pregen, shares, userOps, watch, br, rIn, rOut>>

\* createOrGetPregenWallet 168-176
CreateWalletPreGen(r, f) ==
  /\ pc[r] = "createWalletPreGen"
  /\ LET out == RetryDefault(f)
         id == Identifier(req[r].body)
     IN /\ Count(r, "createWalletPreGen", out.invocations)
        /\ IF out.ok
           THEN /\ pregen' = [pregen EXCEPT ![id] = @ + 1]
                /\ Goto(r, "getUserShare", <<id, pregen[id] + 1>>)
           ELSE /\ UNCHANGED pregen
                /\ AttemptThrows(r, WalletError(r))
  /\ UNCHANGED <<now, cache, shares, userOps, watch, br, rIn, rOut>>

\* createOrGetPregenWallet 179-186
GetUserShare(r, f) ==
  /\ pc[r] = "getUserShare"
  /\ LET out == RetryDefault(f)
     IN /\ Count(r, "getUserShare", out.invocations)
        /\ IF out.ok THEN Goto(r, "storeUserShare", req[r].wallet)
           ELSE AttemptThrows(r, WalletError(r))
  /\ UNCHANGED <<now, cache, pregen, shares, userOps, watch, br, rIn, rOut>>

\* createOrGetPregenWallet 189-190 and storeUserShare (server.ts 499-519):
\* a row holding the share of the wallet just made is inserted
StoreUserShare(r, f) ==
  /\ pc[r] = "storeUserShare"
  /\ LET out == RetryDefault(f)
         id == Identifier(req[r].body)
     IN /\ Count(r, "storeUserShare", out.invocations)
        /\ IF out.ok
           THEN /\ shares' = [shares EXCEPT ![id] = @ \cup {req[r].wallet[2]}]
                /\ Goto(r, "createAlchemyClient", req[r].wallet)
           ELSE /\ UNCHANGED shares
                /\ AttemptThrows(r, WalletError(r))
  /\ UNCHANGED <<now, cache, pregen, userOps, watch, br, rIn, rOut>>

\* a missing share makes the provisioner start over with a new wallet
GetUserShareFromDatabase_CreatesOnMissing(r, f) ==
  /\ pc[r] = "getUserShareFromDatabase"
  /\ LET id == Identifier(req[r].body)
         single == Cardinality(shares[id]) = 1
         out == RetryDefault(f)
     IN /\ Count(r, "getUserShareFromDatabase", out.invocations)
        /\ IF ~out.ok THEN AttemptThrows(r, WalletError(r))
           ELSE IF single
           THEN Goto(r, "setUserShare", <<id, CHOOSE k \in shares[id] : TRUE>>)
           ELSE Goto(r, "createWalletPreGen", <<>>)
  /\ UNCHANGED <<now, cache, pregen, shares, userOps, watch, br, rIn, rOut>>

\* createOrGetPregenWallet 194-198 and getUserShareFromDatabase (server.ts
\* 521-537): .single() is an error unless exactly one row matches
GetUserShareFromDatabase(r, f) ==
  /\ pc[r] = "getUserShareFromDatabase"
  /\ LET id == Identifier(req[r].body)
         single == Cardinality(shares[id]) = 1
         out == RetryDefault(IF single THEN f ELSE CLIENT_MAX_RETRIES)
     IN /\ Count(r, "getUserShareFromDatabase", out.invocations)
        /\ IF out.ok
           THEN Goto(r, "setUserShare", <<id, CHOOSE k \in shares[id] : TRUE>>)
           ELSE AttemptThrows(r, WalletError(r))
  /\ UNCHANGED <<now, cache, pregen, shares, userOps, watch, br, rIn, rOut>>

\* createOrGetPregenWallet 201-216: the share is put into the session and the
\* first wallet of the session is returned
SetUserShare(r, f) ==
  /\ pc[r] = "setUserShare"
  /\ LET out == RetryDefault(f)
     IN /\ calls' = Counted(Counted(calls, r, "setUserShare", out.invocations),
                            r, "getWalletsAfterSetUserShare",
                            IF out.ok THEN 1 ELSE 0)
        /\ IF out.ok THEN Goto(r, "createAlchemyClient", req[r].wallet)
           ELSE AttemptThrows(r, WalletError(r))
  /\ UNCHANGED <<now, cache, pregen, shares, userOps, watch, br, rIn, rOut>>

\* performMint 268-273: createViemClient builds the client locally,
\* createAlchemyClient (clients.ts 273-301) retries the account client
CreateAlchemyClient(r, f) ==
  /\ pc[r] = "createAlchemyClient"
  /\ LET out == RetryDefault(f)
     IN /\ Count(r, "createModularAccountAlchemyClient", out.invocations)
        /\ IF out.ok THEN Goto(r, "signMessage", req[r].wallet)
           ELSE AttemptThrows(r, WalletError(r))
  /\ UNCHANGED <<now, cache, pregen, shares, userOps, watch, br, rIn, rOut>>

\* performMint 284: sendUserOperation is called once; it has the user
\* operation signed through customSignMessage (clients.ts 303-345), which
\* retries capsule.signMessage and throws a SigningError.  The account client
\* hands that error on as it is or inside an error of its own.
SignMessage(r, f, wrapped) ==
  /\ pc[r] = "signMessage"
  /\ LET out == RetryDefault(f)
     IN /\ calls' = Counted(Counted(calls, r, "sendUserOperation", 1),
                            r, "signMessage", out.invocations)
        /\ IF out.ok THEN Goto(r, "sendUserOperation", req[r].wallet)
           ELSE AttemptThrows(r,
                  IF wrapped THEN Err("Error", "sdk", req[r].attempt)
                  ELSE Err("SigningError", "clients", req[r].attempt))
  /\ UNCHANGED <<now, cache, pregen, shares, userOps, watch, br, rIn, rOut>>

\* the MintResult of performMint 288-294
MintResult(body, wallet, hash) ==
  [status |-> "success", identifier |-> Identifier(body),
   identifierType |-> IdentifierType(body), walletAddress |-> wallet,
   operationHash |-> hash]

\* performMint 284-305 and mintHandler 351-363: the relay answers the
\* submission; on success the result is cached, the breaker reset and the
\* result sent
SendUserOperation(r, accepted) ==
  /\ pc[r] = "sendUserOperation"
  /\ LET id == Identifier(req[r].body)
         result == MintResult(req[r].body, req[r].wallet,
                              <<"op", id, userOps[id] + 1>>)
     IN IF accepted
        THEN /\ userOps' = [userOps EXCEPT ![id] = @ + 1]
             /\ pc' = [pc EXCEPT ![r] = "done"]
             /\ cache' = IF Truthy(id)
                         THEN CacheSet(cache, CacheKey(id), result, now)
                         ELSE cache
             /\ circuitBreaker' = reset(circuitBreaker)
             /\ resp' = [resp EXCEPT ![r] =
                          Sent(RespondResult(result, "mintHandler"))]
             /\ consecFail' = NoneFailed
             /\ UNCHANGED req
        ELSE /\ AttemptThrows(r, Err("Error", "sdk", req[r].attempt))
             /\ UNCHANGED <<userOps, cache>>
  /\ UNCHANGED <<now, pregen, shares, calls, watch, br, rIn, rOut>>

\* performMint 317-320: the delay is over, the next attempt starts
Backoff(r) ==
  /\ pc[r] = "backoff"
  /\ pc' = [pc EXCEPT ![r] = "init"]
  /\ req' = [req EXCEPT ![r].attempt = @ + 1, ![r].wallet = <<>>,
                        ![r].callsBefore = calls[r]]
  /\ UNCHANGED <<now, circuitBreaker, cache, pregen, shares, userOps, resp,
                 calls, watch, consecFail, br, rIn, rOut>>

InitMint ==
  /\ now = 0
  /\ circuitBreaker = NewCircuitBreaker(0)
  /\ InitMintVars
  /\ br = InitBr
  /\ rIn = [operation |-> <<>>, maxRetries |-> 0, retryDelay |-> 0]
  /\ rOut = <<>>

Failures == 0..CLIENT_MAX_RETRIES

NextMint ==
  \/ \E d \in MintTickSteps : Tick(d)
  \/ \E r \in Reqs : \E body \in Bodies : Receive(r, body)
  \/ \E r \in Reqs : \E f \in Failures : Precheck(r, f)
  \/ \E r \in Reqs : \E f \in Failures : AttemptInit(r, f)
  \/ \E r \in Reqs : \E f \in Failures : HasPregenWallet(r, f)
  \/ \E r \in Reqs : \E f \in Failures : CreateWalletPreGen(r, f)
  \/ \E r \in Reqs : \E f \in Failures : GetUserShare(r, f)
  \/ \E r \in Reqs : \E f \in Failures : StoreUserShare(r, f)
  \/ \E r \in Reqs : \E f \in Failures : GetUserShareFromDatabase(r, f)
  \/ \E r \in Reqs : \E f \in Failures : SetUserShare(r, f)
  \/ \E r \in Reqs : \E f \in Failures : CreateAlchemyClient(r, f)
  \/ \E r \in Reqs : \E f \in Failures : \E w \in BOOLEAN : SignMessage(r, f, w)
  \/ \E r \in Reqs : \E a \in BOOLEAN : SendUserOperation(r, a)
  \/ \E r \in Reqs : Backoff(r)

SpecMint == InitMint /\ [][NextMint]_vars

\* ------------------------------------------------------------------------
\* SpecRequest: one request, the invocations of one of its remote calls
\* counted, against every state of the custodial service and the share store
\* that serial requests leave
\* ------------------------------------------------------------------------
InitRequest ==
  /\ now = 0
  /\ circuitBreaker = NewCircuitBreaker(0)
  /\ cache = <<>>
  /\ pregen \in [Identifiers -> 0..1]
  /\ shares \in [Identifiers -> {{}, {1}}]
  /\ \A i \in Identifiers : shares[i] \subseteq 1..pregen[i]
  /\ userOps = [i \in Identifiers |-> 0]
  /\ pc = [r \in Reqs |-> "idle"]
  /\ req = [r \in Reqs |-> NewReq]
  /\ resp = [r \in Reqs |-> NoResponse]
  /\ watch \in CallNames
  /\ calls = [r \in Reqs |-> 0]
  /\ consecFail = NoneFailed
  /\ br = InitBr
  /\ rIn = [operation |-> <<>>, maxRetries |-> 0, retryDelay |-> 0]
  /\ rOut = <<>>

ReceiveFirst(r, body) == pc[r] = "idle" /\ Receive(r, body)

NextRequest ==
  \/ \E r \in Reqs : \E body \in Bodies : ReceiveFirst(r, body)
  \/ \E r \in Reqs : \E f \in Failures : Precheck(r, f)
  \/ \E r \in Reqs : \E f \in Failures : AttemptInit(r, f)
  \/ \E r \in Reqs : \E f \in Failures : HasPregenWallet(r, f)
  \/ \E r \in Reqs : \E f \in Failures : CreateWalletPreGen(r, f)
  \/ \E r \in Reqs : \E f \in Failures : GetUserShare(r, f)
  \/ \E r \in Reqs : \E f \in Failures : StoreUserShare(r, f)
  \/ \E r \in Reqs : \E f \in Failures : GetUserShareFromDatabase(r, f)
  \/ \E r \in Reqs : \E f \in Failures : SetUserShare(r, f)
  \/ \E r \in Reqs : \E f \in Failures : CreateAlchemyClient(r, f)
  \/ \E r \in Reqs : \E f \in Failures : \E w \in BOOLEAN : SignMessage(r, f, w)
  \/ \E r \in Reqs : \E a \in BOOLEAN : SendUserOperation(r, a)
  \/ \E r \in Reqs : Backoff(r)

SpecRequest == InitRequest /\ [][NextRequest]_vars

\* ------------------------------------------------------------------------
\* Properties of the mint service
\* ------------------------------------------------------------------------
InFlight(r) == pc[r] \notin {"idle", "done"}

\* this step is the arrival of a request in slot r
Arrives(r) == req'[r].seq # req[r].seq

\* this step sends the response of a request that had entered mintHandler
HandlerResponds(r) == InFlight(r) /\ pc'[r] = "done"

C5_CacheHit ==
  [][ \A r \in Reqs :
        LET v == validateRequest(req'[r].raw)
            key == CacheKey(Identifier(v.body))
        IN (Arrives(r) /\ v.next /\ CacheLive(cache, key, now)) =>
             /\ pc'[r] = "done"
             /\ resp'[r].status = 200
             /\ resp'[r].result = cache[key].v
             /\ UNCHANGED <<circuitBreaker, pregen, shares, userOps>> ]_vars

\* a request was answered from the cache while the breaker was open
C5_Witness ==
  \E r \in Reqs :
    /\ pc[r] = "done"
    /\ resp[r].sentBy = "cacheMiddleware"
    /\ resp[r].status = 200
    /\ resp[r].cbBefore.isOpen
    /\ circuitBreaker.isOpen

\* C6: after threshold+1 requests in a row that each ended in a downstream
\* failure, a valid request that misses the cache and arrives within the
\* reset time of the first of them (hence of the last) is answered 503 with
\* retryAfter the reset time in seconds, before any downstream call.
C6_OpenAfterFailures ==
  [][ \A r \in Reqs :
        LET v == validateRequest(req'[r].raw)
            key == CacheKey(Identifier(v.body))
        IN (/\ Arrives(r)
            /\ consecFail.n >= CIRCUIT_BREAKER_THRESHOLD + 1
            /\ now - consecFail.t <= CIRCUIT_BREAKER_RESET_TIME
            /\ v.next
            /\ ~CacheLive(cache, key, now)) =>
             /\ pc'[r] = "done"
             /\ resp'[r].status = 503
             /\ resp'[r].retryAfter = CIRCUIT_BREAKER_RESET_TIME \div 1000 ]_vars

\* C7: the failure counter grows only in a step in which a request that had
\* entered the handler ends with an error response; a request answered by
\* validation, by the cache or by the open breaker leaves it unchanged.
C7_OnlyDownstreamFailures ==
  [][ /\ circuitBreaker'.failures > circuitBreaker.failures =>
           \E r \in Reqs : /\ HandlerResponds(r)
                           /\ resp'[r].status >= 500
                           /\ resp'[r].cause # NoError
      /\ \A r \in Reqs :
           (Arrives(r) /\ pc'[r] = "done") =>
              circuitBreaker'.failures = circuitBreaker.failures ]_vars

\* the open breaker rejected a request and the counter stayed
C7_Witness ==
  \E r \in Reqs :
    /\ pc[r] = "done"
    /\ resp[r].sentBy = "circuitBreakerMiddleware"
    /\ resp[r].status = 503
    /\ resp[r].cbBefore.failures = CIRCUIT_BREAKER_THRESHOLD + 1
    /\ circuitBreaker.failures = CIRCUIT_BREAKER_THRESHOLD + 1

\* C8: a request that entered the handler and ends with an error response
\* records exactly one failure in the breaker in the step that responds.
C8_FailureRecorded ==
  [][ \A r \in Reqs :
        (HandlerResponds(r) /\ resp'[r].status # 200) =>
          circuitBreaker'.failures = circuitBreaker.failures + 1 ]_vars

\* C9: performMint makes at most MAX_RETRIES attempts; the wait after
\* attempt i (from 0) is INITIAL_RETRY_DELAY * 2^i and none follows the last
\* attempt; a success ends the request with the result of that attempt; when
\* every attempt failed the error of the last attempt is the one thrown.
C9_OuterRetry ==
  \A r \in Reqs :
    /\ req[r].attempt <= MAX_RETRIES - 1
    /\ Len(req[r].waits) =
         IF pc[r] = "backoff" THEN req[r].attempt + 1 ELSE req[r].attempt
    /\ Len(req[r].waits) <= MAX_RETRIES - 1
    /\ \A i \in 1..Len(req[r].waits) :
         req[r].waits[i] = INITIAL_RETRY_DELAY * Pow2(i - 1)
    /\ (pc[r] = "done" /\ resp[r].sentBy = "mintHandler.catch") =>
         /\ req[r].attempt = MAX_RETRIES - 1
         /\ resp[r].cause = req[r].lastError
         /\ resp[r].cause.attempt = MAX_RETRIES - 1
    /\ (pc[r] = "done" /\ resp[r].sentBy = "mintHandler") =>
         /\ resp[r].result.walletAddress = req[r].wallet
         /\ req[r].wallet # <<>>
         /\ \/ req[r].attempt = 0
            \/ req[r].lastError.attempt = req[r].attempt - 1

\* all attempts failed after both waits
C9_Witness ==
  \E r \in Reqs :
    /\ pc[r] = "done"
    /\ resp[r].sentBy = "mintHandler.catch"
    /\ req[r].waits = <<INITIAL_RETRY_DELAY, 2 * INITIAL_RETRY_DELAY>>
    /\ resp[r].cause.attempt = MAX_RETRIES - 1

\* C10 as stated: no remote call is invoked more than MAX_RETRIES^2 times for
\* one request.
C10_AtMostSquare ==
  \A r \in Reqs : calls[r] <= MAX_RETRIES * MAX_RETRIES

\* C10 amended: the connection check of initializeCapsule is invoked at most
\* CLIENT_MAX_RETRIES * (MAX_RETRIES + 1) times for one request, every other
\* remote call at most CLIENT_MAX_RETRIES * MAX_RETRIES times.
C10_CallBudget ==
  \A r \in Reqs :
    calls[r] <= IF watch = "getWallets"
                THEN CLIENT_MAX_RETRIES * (MAX_RETRIES + 1)
                ELSE CLIENT_MAX_RETRIES * MAX_RETRIES

\* a request used the whole budget of the connection check
C10_Witness ==
  \E r \in Reqs :
    /\ watch = "getWallets"
    /\ calls[r] = CLIENT_MAX_RETRIES * (MAX_RETRIES + 1)
    /\ pc[r] = "done"

\* ------------------------------------------------------------------------
\* SpecRetry: one call of retry() on every operation and argument
\* ------------------------------------------------------------------------
\* the operations: invocation i resolves to <<"value", i>> or throws
\* <<"error", i>>
Operations ==
  { [i \in 1..MaxRetriesArg |->
       [ok |-> b[i], v |-> IF b[i] THEN <<"value", i>> ELSE <<"error", i>>]] :
    b \in [1..MaxRetriesArg -> BOOLEAN] }

RetryDelays == {RETRY_DELAY, 250}

InitRetry ==
  /\ now = 0
  /\ circuitBreaker = NewCircuitBreaker(0)
  /\ InitMintVars
  /\ br = InitBr
  /\ rIn \in [operation : Operations, maxRetries : 0..MaxRetriesArg,
              retryDelay : RetryDelays]
  /\ rOut = <<>>

RetryCall ==
  /\ rOut = <<>>
  /\ rOut' = <<retry(rIn.operation, rIn.maxRetries, rIn.retryDelay)>>
  /\ UNCHANGED <<now, circuitBreaker, mintVars, br, rIn>>

NextRetry == RetryCall

SpecRetry == InitRetry /\ [][NextRetry]_vars

\* number of invocations of the operation that fail before the first one
\* that succeeds (MaxRetriesArg when none succeeds)
RECURSIVE LeadingFailures(_, _)
LeadingFailures(operation, i) ==
  IF i > MaxRetriesArg \/ operation[i].ok THEN 0
  ELSE 1 + LeadingFailures(operation, i + 1)

\* C1: a work function that fails k times and then succeeds, with
\* maxRetries > k, makes retry return the success value after exactly k+1
\* invocations; a work function that always fails makes retry perform exactly
\* maxRetries invocations and throw the error of the last invocation.
C1_RetryCounts ==
  rOut # <<>> =>
    LET k == LeadingFailures(rIn.operation, 1)
        n == rIn.maxRetries
    IN /\ (k < MaxRetriesArg /\ n > k) =>
            /\ rOut[1].ok
            /\ rOut[1].v = <<"value", k + 1>>
            /\ rOut[1].invocations = k + 1
       /\ (k = MaxRetriesArg) =>
            /\ ~rOut[1].ok
            /\ rOut[1].invocations = n
            /\ (n >= 1 => rOut[1].v = <<"error", n>>)

C1_Witness ==
  /\ rOut # <<>>
  /\ LeadingFailures(rIn.operation, 1) = 2
  /\ rIn.maxRetries = 3
  /\ rOut[1].ok /\ rOut[1].invocations = 3

\* C2 as stated: the wait after a failed attempt is baseDelay * 2^attempt
\* (attempts counted from 0 or from 1), each wait being twice the previous
\* one.
C2_ExponentialWaits ==
  rOut # <<>> =>
    /\ \E first \in {0, 1} :
         \A i \in 1..Len(rOut[1].waits) :
           rOut[1].waits[i] = rIn.retryDelay * Pow2(first + i - 1)
    /\ \A i \in 1..(Len(rOut[1].waits) - 1) :
         rOut[1].waits[i + 1] = 2 * rOut[1].waits[i]

\* C2 amended: every wait is the constant retryDelay; one wait follows each
\* failed invocation but the last one of the call, none follows a success.
C2_ConstantWaits ==
  rOut # <<>> =>
    /\ \A i \in 1..Len(rOut[1].waits) : rOut[1].waits[i] = rIn.retryDelay
    /\ Len(rOut[1].waits) = IF rOut[1].invocations = 0 THEN 0 ELSE rOut[1].invocations - 1

C2_Witness ==
  /\ rOut # <<>>
  /\ ~rOut[1].ok
  /\ rIn.maxRetries = 3
  /\ rOut[1].invocations = 3
  /\ rOut[1].waits = <<rIn.retryDelay, rIn.retryDelay>>

\* ------------------------------------------------------------------------
\* SpecRace: two requests in flight together, each suspended at its awaits
\* (server.ts has no lock: the handlers interleave at every await)
\* ------------------------------------------------------------------------
Slots == {1, 2}

\* the bodies that pass validateRequest
ValidBodies == {b \in Bodies : validateRequest(b).next}

InitRace ==
  /\ now = 0
  /\ circuitBreaker = NewCircuitBreaker(0)
  /\ cache = <<>>
  /\ pregen = [i \in Identifiers |-> 0]
  /\ shares = [i \in Identifiers |-> {}]
  /\ userOps = [i \in Identifiers |-> 0]
  /\ pc = [r \in Slots |-> "idle"]
  /\ req = [r \in Slots |-> NewReq]
  /\ resp = [r \in Slots |-> NoResponse]
  /\ watch = "none"
  /\ calls = [r \in Slots |-> 0]
  /\ consecFail = NoneFailed
  /\ br = InitBr
  /\ rIn = [operation |-> <<>>, maxRetries |-> 0, retryDelay |-> 0]
  /\ rOut = <<>>

\* one await of the handler of request r returns or throws
HandlerStep(r) ==
  \/ \E f \in Failures : Precheck(r, f)
  \/ \E f \in Failures : AttemptInit(r, f)
  \/ \E f \in Failures : HasPregenWallet(r, f)
  \/ \E f \in Failures : CreateWalletPreGen(r, f)
  \/ \E f \in Failures : GetUserShare(r, f)
  \/ \E f \in Failures : StoreUserShare(r, f)
  \/ \E f \in Failures : GetUserShareFromDatabase(r, f)
  \/ \E f \in Failures : SetUserShare(r, f)
  \/ \E f \in Failures : CreateAlchemyClient(r, f)
  \/ \E f \in Failures : \E w \in BOOLEAN : SignMessage(r, f, w)
  \/ \E a \in BOOLEAN : SendUserOperation(r, a)
  \/ Backoff(r)

NextRace ==
  \/ \E r \in Slots : \E body \in ValidBodies : ReceiveFirst(r, body)
  \/ \E r \in Slots : HandlerStep(r)

SpecRace == InitRace /\ [][NextRace]_vars

\* the requests made for identifier i
RequestsFor(i) ==
  {r \in DOMAIN req : pc[r] # "idle" /\ Identifier(req[r].body) = i}

\* C11 as stated: in every reachable state, also with requests in flight
\* together, each identifier has at most one share record in the share store
\* and at most one wallet made for it at the custodial service.
C11_AtMostOne ==
  \A i \in Identifiers :
    /\ pregen[i] <= 1
    /\ Cardinality(shares[i]) <= 1

\* C11 amended: an identifier whose requests never ran inside mintHandler
\* together has at most one share record and at most one wallet.
C11_AtMostOneSerial ==
  \A i \in Identifiers :
    (\A r \in RequestsFor(i) : ~req[r].overlap) =>
      /\ pregen[i] <= 1
      /\ Cardinality(shares[i]) <= 1

\* a request failed after the wallet and its share were made, and a later
\* request for the same identifier, not overlapping it, minted to that wallet
C11_Witness ==
  \E i \in Identifiers : \E r1, r2 \in Slots :
    /\ r1 # r2
    /\ RequestsFor(i) = {r1, r2}
    /\ ~req[r1].overlap /\ ~req[r2].overlap
    /\ pc[r1] = "done" /\ resp[r1].status = 500
    /\ pc[r2] = "done" /\ resp[r2].status = 200
    /\ resp[r2].result.walletAddress = <<i, 1>>
    /\ pregen[i] = 1
    /\ shares[i] = {1}

\* ------------------------------------------------------------------------
\* The responses to failed requests
\* ------------------------------------------------------------------------
\* the error that ended the request is of the class `name` of either module
CausedBy(r, names) == resp[r].cause.name \in names

\* C12: the status of a failed POST /mint follows the kind of failure: 503
\* with retryAfter when the breaker is open or the session of the custodial
\* service could not be initialised (in the pre-check of the handler or in
\* every attempt of performMint), 500 with retryAfter when provisioning,
\* signing or submission failed.
C12_StatusByKind ==
  \A r \in Reqs :
    (pc[r] = "done" /\ resp[r].status \notin {0, 200, 400}) =>
      /\ resp[r].retryAfter > 0
      /\ resp[r].sentBy = "circuitBreakerMiddleware" => resp[r].status = 503
      /\ CausedBy(r, {"CapsuleInitializationError"}) => resp[r].status = 503
      /\ CausedBy(r, {"WalletOperationError", "SigningError", "Error"}) =>
           resp[r].status = 500

\* ------------------------------------------------------------------------
\* SpecValidate: validateRequest and the cache key on every body
\* ------------------------------------------------------------------------
\* the strings over alphabet of length 0..n
StringsOver(alphabet, n) == UNION {[1..k -> alphabet] : k \in 0..n}

\* the string of n characters c
Repeat(c, n) == [i \in 1..n |-> c]

UserAtExampleCom ==
  <<"U", "s", "e", "r", "@", "E", "x", "a", "m", "p", "l", "e", ".", "c",
    "o", "m">>

EmailInputs ==
  StringsOver({"A", "b", "@", ".", " "}, MaxStrLen)
    \cup {UserAtExampleCom, UserAtExampleCom \o <<" ">>,
          <<" ">> \o UserAtExampleCom}

\* short strings of every shape, and "+" (or nothing) followed by up to
\* MaxPhoneDigits digits with each kind of first digit, whole or with a
\* letter or a space at the end
PhoneInputs ==
  StringsOver({"+", "0", "1", "a"}, MaxStrLen)
    \cup { sign \o <<first>> \o Repeat("5", n) \o last :
             sign \in {<<"+">>, <<>>}, first \in {"0", "1", "9"},
             n \in 0..(MaxPhoneDigits - 1), last \in {<<>>, <<"a">>, <<" ">>} }

ValidateBodies ==
  {[email |-> e, phone |-> <<>>] : e \in EmailInputs}
    \cup {[email |-> <<>>, phone |-> ph] : ph \in PhoneInputs}
    \cup {[email |-> e, phone |-> ph] :
            e \in {<<"A", "@", "b", ".", "c">>, <<"A", "@", "b">>},
            ph \in {<<"+", "1", "2">>, <<"1", "2">>}}

InitValidate ==
  /\ now = 0
  /\ circuitBreaker = NewCircuitBreaker(0)
  /\ InitMintVars
  /\ br = InitBr
  /\ rIn \in ValidateBodies
  /\ rOut = <<>>

\* validateRequest on req.body = rIn, and the key cacheMiddleware then looks
\* up (server.ts 206-212)
ValidateCall ==
  /\ rOut = <<>>
  /\ LET v == validateRequest(rIn)
     IN rOut' = <<[next |-> v.next, body |-> v.body, res |-> v.res,
                   key |-> IF v.next THEN CacheKey(Identifier(v.body))
                           ELSE <<>>]>>
  /\ UNCHANGED <<now, circuitBreaker, mintVars, br, rIn>>

NextValidate == ValidateCall

SpecValidate == InitValidate /\ [][NextValidate]_vars

EmailOnly(body) == Truthy(body.email) /\ ~Truthy(body.phone)

PhoneOnly(body) == ~Truthy(body.email) /\ Truthy(body.phone)

\* str is local@domain.tld with no white space and no further "@"
LocalAtDomain(str) ==
  \E l, d, t \in 1..Len(str) :
    /\ l + 1 + d + 1 + t = Len(str)
    /\ str[l + 1] = "@"
    /\ str[l + 1 + d + 1] = "."
    /\ \A i \in (1..Len(str)) \ {l + 1, l + 1 + d + 1} :
         str[i] \notin WhiteSpace \cup {"@"}

\* C13: an email that has a valid local@domain shape once the surrounding
\* white space is removed passes validation, and the identifier used for the
\* cache key and for provisioning is its lower-cased, trimmed form.
C13_PaddedEmailAccepted ==
  (rOut # <<>> /\ EmailOnly(rIn) /\ LocalAtDomain(trim(rIn.email))) =>
    /\ rOut[1].next
    /\ Identifier(rOut[1].body) = toLowerCase(trim(rIn.email))
    /\ rOut[1].key = <<"m", "i", "n", "t", ":">> \o toLowerCase(trim(rIn.email))

\* str is "+" followed by lo to hi digits
PlusThenDigits(str, lo, hi) ==
  /\ Len(str) - 1 \in lo..hi
  /\ str[1] = "+"
  /\ \A i \in 2..Len(str) : str[i] \in Digits

\* C14 as stated: a phone-only request is accepted if and only if the phone
\* is "+" followed by 2 to 15 digits, whatever the first digit; every other
\* string is rejected with status 400.
C14_PhonePlusDigits ==
  (rOut # <<>> /\ PhoneOnly(rIn)) =>
    /\ rOut[1].next <=> PlusThenDigits(rIn.phone, 2, 15)
    /\ ~rOut[1].next => rOut[1].res.status = 400

\* C14 amended: a phone-only request is accepted if and only if the phone is
\* "+" followed by 2 to 15 digits the first of which is not 0; every other
\* string is rejected with status 400.
C14_PhoneE164 ==
  (rOut # <<>> /\ PhoneOnly(rIn)) =>
    /\ rOut[1].next <=>
         (PlusThenDigits(rIn.phone, 2, 15) /\ rIn.phone[2] # "0")
    /\ ~rOut[1].next => rOut[1].res.status = 400

\* "+" and 15 digits are accepted when the first digit is 9
C14_Witness ==
  /\ rOut # <<>>
  /\ PhoneOnly(rIn)
  /\ rIn.phone = <<"+", "9">> \o Repeat("5", 14)
  /\ rOut[1].next
  /\ rOut[1].body.phone = rIn.phone

\* ------------------------------------------------------------------------
\* The remote calls of one attempt of performMint
\* ------------------------------------------------------------------------
\* the remote call whose outcome the handler awaits at each label
CallAt ==
  [l \in {"init", "hasPregenWallet", "createWalletPreGen", "getUserShare",
          "storeUserShare", "getUserShareFromDatabase", "setUserShare",
          "createAlchemyClient", "signMessage", "sendUserOperation"} |->
     CASE l = "init" -> "getWallets"
       [] l = "createAlchemyClient" -> "createModularAccountAlchemyClient"
       [] OTHER -> l]

\* this step is the catch of performMint (server.ts 306-321): the attempt of
\* request r fails at the call it was awaiting
AttemptFails(r) ==
  /\ pc[r] \in DOMAIN CallAt
  /\ pc'[r] \in {"backoff", "done"}
  /\ req'[r].lastError # req[r].lastError

\* the invocations of the watched call made by the current attempt, this
\* step included
InvokedInAttempt(r) == calls'[r] - req[r].callsBefore

C16_SigningSurfacesAsWalletError ==
  [][ \A r \in Reqs :
        (AttemptFails(r) /\ pc[r] \in {"signMessage", "sendUserOperation"}) =>
          /\ req'[r].lastError.name = "WalletOperationError"
          /\ pc'[r] = "done" =>
               resp'[r].cause.name = "WalletOperationError" ]_vars

\* the awaits of createOrGetPregenWallet (clients.ts 157-201)
ProvisionLabels ==
  {"hasPregenWallet", "createWalletPreGen", "getUserShare", "storeUserShare",
   "getUserShareFromDatabase", "setUserShare"}

\* C17: when the custodial service holds a pregenerated wallet for the
\* identifier and the share store holds no share for it, provisioning fails
\* with a WalletOperationError, makes no new wallet and writes no share
\* record; and every failure of a provisioning step is thrown as a
\* WalletOperationError.
C17_ProvisionFailsAsWalletError ==
  [][ \A r \in Reqs :
        LET id == Identifier(req[r].body)
            inconsistent == pregen[id] > 0 /\ shares[id] = {}
        IN /\ (pc[r] = "hasPregenWallet" /\ pc'[r] # pc[r] /\ inconsistent) =>
                /\ pc'[r] \in {"getUserShareFromDatabase", "backoff", "done"}
                /\ pregen' = pregen /\ shares' = shares
           /\ (pc[r] = "getUserShareFromDatabase" /\ pc'[r] # pc[r]
                 /\ inconsistent) =>
                /\ AttemptFails(r)
                /\ pregen' = pregen /\ shares' = shares
           /\ (AttemptFails(r) /\ pc[r] \in ProvisionLabels) =>
                req'[r].lastError.name = "WalletOperationError" ]_vars

\* the wallet exists, the share is missing: the lookup of the share was
\* invoked three times and the first attempt failed
C17_Witness ==
  \E r \in Reqs :
    /\ watch = "getUserShareFromDatabase"
    /\ pc[r] = "backoff"
    /\ pregen[Identifier(req[r].body)] = 1
    /\ shares[Identifier(req[r].body)] = {}
    /\ req[r].attempt = 0
    /\ calls[r] = CLIENT_MAX_RETRIES
    /\ req[r].lastError = Err("WalletOperationError", "clients", 0)

\* ------------------------------------------------------------------------
\* customSignMessage (clients.ts 303-345)
\* ------------------------------------------------------------------------
HexDigits ==
  <<"0", "1", "2", "3", "4", "5", "6", "7", "8", "9",
    "a", "b", "c", "d", "e", "f">>

UpperHexDigits == <<"A", "B", "C", "D", "E", "F">>

HexChars ==
  {HexDigits[i] : i \in 1..16} \cup {UpperHexDigits[i] : i \in 1..6}

\* the value of a hexadecimal digit of either case
HexValue(c) ==
  IF \E i \in 1..16 : HexDigits[i] = c
  THEN (CHOOSE i \in 1..16 : HexDigits[i] = c) - 1
  ELSE (CHOOSE i \in 1..6 : UpperHexDigits[i] = c) + 9

\* a Number: nan is TRUE for NaN, otherwise n is the value
NaN == [nan |-> TRUE, n |-> 0]

\* the value of the longest prefix of str made of hexadecimal digits, after
\* acc for the digits already read
RECURSIVE ParseHexPrefix(_, _)
ParseHexPrefix(str, acc) ==
  IF str = <<>> \/ str[1] \notin HexChars THEN acc
  ELSE ParseHexPrefix(Tail(str), 16 * acc + HexValue(str[1]))

\* parseInt(str, 16): a leading 0x or 0X is skipped, the hexadecimal digits
\* that follow are read up to the first other character, and the result is
\* NaN when there is none
parseInt16(str) ==
  LET body == IF Len(str) >= 2 /\ str[1] = "0" /\ str[2] \in {"x", "X"}
              THEN SubSeq(str, 3, Len(str)) ELSE str
  IN IF body = <<>> \/ body[1] \notin HexChars THEN NaN
     ELSE [nan |-> FALSE, n |-> ParseHexPrefix(body, 0)]

\* Number.prototype.toString(16) of n >= 0
RECURSIVE toString16(_)
toString16(n) ==
  IF n < 16 THEN <<HexDigits[n + 1]>>
  ELSE toString16(n \div 16) \o <<HexDigits[(n % 16) + 1]>>

\* String.prototype.padStart(2, "0")
padStart2(str) == IF Len(str) < 2 THEN Repeat("0", 2 - Len(str)) \o str ELSE str

\* String.prototype.slice(-2) and slice(0, -2)
SliceLast2(str) == SubSeq(str, IF Len(str) > 2 THEN Len(str) - 1 ELSE 1, Len(str))

SliceButLast2(str) == SubSeq(str, 1, Len(str) - 2)

\* the adjustment also made when the last byte is 27
FixV_Inclusive(signature) ==
  LET lastByte == parseInt16(SliceLast2(signature))
  IN IF ~lastByte.nan /\ lastByte.n <= 27
     THEN SliceButLast2(signature) \o padStart2(toString16(lastByte.n + 27))
     ELSE signature

\* clients.ts 335-339: NaN < 27 is false
FixV(signature) ==
  LET lastByte == parseInt16(SliceLast2(signature))
  IN IF ~lastByte.nan /\ lastByte.n < 27
     THEN SliceButLast2(signature) \o padStart2(toString16(lastByte.n + 27))
     ELSE signature

SigningFailed == [ok |-> FALSE, v |-> <<>>, err |-> "SigningError"]

\* customSignMessage when capsule.signMessage() throws in its first f
\* invocations and then answers with res.signature = signature (<<>>: the
\* field is missing or empty)
customSignMessage(f, signature) ==
  IF ~RetryDefault(f).ok \/ ~Truthy(signature) THEN SigningFailed
  ELSE [ok |-> TRUE, v |-> <<"0", "x">> \o FixV(signature), err |-> "none"]

\* the characters of the signatures the signer answers with
SigChars == HexChars \cup {"x", "g"}

\* what comes before the last two characters
SigPrefixes == {<<>>, <<"7">>, <<"a", "B">>, <<"0", "x", "1", "2">>}

Signatures ==
  {<<>>} \cup {<<c>> : c \in SigChars}
    \cup {pre \o <<a, b>> : pre \in SigPrefixes, a \in SigChars, b \in SigChars}

InitSign ==
  /\ now = 0
  /\ circuitBreaker = NewCircuitBreaker(0)
  /\ InitMintVars
  /\ br = InitBr
  /\ rIn \in [f : Failures, signature : Signatures]
  /\ rOut = <<>>

SignCall ==
  /\ rOut = <<>>
  /\ rOut' = <<customSignMessage(rIn.f, rIn.signature)>>
  /\ UNCHANGED <<now, circuitBreaker, mintVars, br, rIn>>

NextSign == SignCall

SpecSign == InitSign /\ [][NextSign]_vars

\* the last two characters of str are hexadecimal digits
EndsInByte(str) ==
  /\ Len(str) >= 2
  /\ str[Len(str) - 1] \in HexChars
  /\ str[Len(str)] \in HexChars

\* the byte written by the last two characters of str
LastByte(str) == 16 * HexValue(str[Len(str) - 1]) + HexValue(str[Len(str)])

\* C18: for every signature the signer returns whose last byte is v, the
\* output is 0x followed by the signature with every byte but the last
\* unchanged and the last byte v + 27 when v < 27 and v otherwise; the
\* recovery byte of every signature returned is at least 27.
C18_RecoveryByte ==
  (rOut # <<>> /\ rIn.f < CLIENT_MAX_RETRIES /\ EndsInByte(rIn.signature)) =>
    LET sig == rIn.signature
        v == LastByte(sig)
        out == rOut[1].v
    IN /\ rOut[1].ok
       /\ Len(out) = Len(sig) + 2
       /\ SubSeq(out, 1, 2) = <<"0", "x">>
       /\ SubSeq(out, 3, Len(out) - 2) = SubSeq(sig, 1, Len(sig) - 2)
       /\ EndsInByte(out)
       /\ LastByte(out) = IF v < 27 THEN v + 27 ELSE v
       /\ v >= 27 => SubSeq(out, 3, Len(out)) = sig
       /\ LastByte(out) >= 27

\* the signer answered with recovery byte 01 and 0x..1c was returned
C18_Witness ==
  /\ rOut # <<>>
  /\ rIn.signature = <<"a", "B", "0", "1">>
  /\ rOut[1].ok
  /\ rOut[1].v = <<"0", "x", "a", "B", "1", "c">>

\* ------------------------------------------------------------------------
\* SpecLive: one request against every state of the cache, the breaker, the
\* custodial service and the share store, every await of its handler
\* returning or throwing in the end
\* ------------------------------------------------------------------------
\* a breaker that recordFailure() opened at time 0
OpenedBreaker ==
  [failures |-> CIRCUIT_BREAKER_THRESHOLD + 1, lastFailure |-> 0,
   isOpen |-> TRUE]

\* the cache after a mint for identifier i at time 0
CacheWith(i) ==
  CacheSet(<<>>, CacheKey(i),
           [status |-> "success", identifier |-> i, identifierType |-> "EMAIL",
            walletAddress |-> <<i, 1>>, operationHash |-> <<"op", i, 1>>], 0)

InitLive ==
  /\ now = 0
  /\ circuitBreaker \in {NewCircuitBreaker(0), OpenedBreaker}
  /\ cache \in {<<>>} \cup {CacheWith(Identifier(validateRequest(b).body)) :
                             b \in {x \in ValidBodies : Truthy(x.email)}}
  /\ pregen \in [Identifiers -> 0..1]
  /\ shares \in [Identifiers -> {{}, {1}}]
  /\ \A i \in Identifiers : shares[i] \subseteq 1..pregen[i]
  /\ userOps = [i \in Identifiers |-> 0]
  /\ pc = [r \in Reqs |-> "idle"]
  /\ req = [r \in Reqs |-> NewReq]
  /\ resp = [r \in Reqs |-> NoResponse]
  /\ watch = "none"
  /\ calls = [r \in Reqs |-> 0]
  /\ consecFail = NoneFailed
  /\ br = InitBr
  /\ rIn = [operation |-> <<>>, maxRetries |-> 0, retryDelay |-> 0]
  /\ rOut = <<>>

NextLive ==
  \/ \E r \in Reqs : \E body \in Bodies : ReceiveFirst(r, body)
  \/ \E r \in Reqs : HandlerStep(r)

\* every remote call returns or throws in the end, and so does every delay
SpecLive ==
  InitLive /\ [][NextLive]_vars /\ WF_vars(\E r \in Reqs : HandlerStep(r))

\* C19: every POST /mint request the rate limiter lets through is answered
\* in the end, and answered once: a response is sent on every path, and once
\* sent it is never followed by another one.
C19_ExactlyOneResponse ==
  /\ \A r \in Reqs :
       (pc[r] # "idle") ~> (pc[r] = "done" /\ resp[r].status # 0)
  /\ [][ \A r \in Reqs :
           /\ resp[r].status # 0 => resp'[r] = resp[r]
           /\ resp'[r].status # 0 => pc'[r] = "done" ]_vars

\* the request was answered 500 after its third attempt failed
C19_Witness ==
  \E r \in Reqs :
    /\ pc[r] = "done"
    /\ req[r].attempt = MAX_RETRIES - 1
    /\ Len(req[r].waits) = MAX_RETRIES - 1
    /\ resp[r].status = 500
    /\ resp[r].sentBy = "mintHandler.catch"

\* ------------------------------------------------------------------------
\* SpecCache: serial requests for one identifier while the clock runs past
\* the TTL of the cache
\* ------------------------------------------------------------------------
\* the clock advances by one millisecond or by the whole TTL, and is read
\* within MaxPastTTL milliseconds after time 0 and after the TTL
CacheTickSteps == {1, CACHE_TTL * 1000}

TickCache(d) ==
  /\ now + d <= CACHE_TTL * 1000 + MaxPastTTL
  /\ (now + d) % (CACHE_TTL * 1000) <= MaxPastTTL
  /\ now' = now + d
  /\ UNCHANGED <<circuitBreaker, mintVars, br, rIn, rOut>>

\* every remote call answers at its first invocation; the relay accepts or
\* rejects the user operation
HandlerStepRelayFails(r) ==
  \/ Precheck(r, 0)
  \/ AttemptInit(r, 0)
  \/ HasPregenWallet(r, 0)
  \/ CreateWalletPreGen(r, 0)
  \/ GetUserShare(r, 0)
  \/ StoreUserShare(r, 0)
  \/ GetUserShareFromDatabase(r, 0)
  \/ SetUserShare(r, 0)
  \/ CreateAlchemyClient(r, 0)
  \/ SignMessage(r, 0, FALSE)
  \/ \E a \in BOOLEAN : SendUserOperation(r, a)
  \/ Backoff(r)

\* the service starts with its breaker closed, or opened at time 0
InitCache ==
  /\ now = 0
  /\ circuitBreaker \in {NewCircuitBreaker(0), OpenedBreaker}
  /\ InitMintVars
  /\ br = InitBr
  /\ rIn = [operation |-> <<>>, maxRetries |-> 0, retryDelay |-> 0]
  /\ rOut = <<>>

NextCache ==
  \/ \E d \in CacheTickSteps : TickCache(d)
  \/ \E r \in Reqs : \E body \in Bodies : Receive(r, body)
  \/ \E r \in Reqs : HandlerStepRelayFails(r)

SpecCache == InitCache /\ [][NextCache]_vars

C21_OpenIffOverThreshold ==
  circuitBreaker.isOpen <=>
    circuitBreaker.failures > CIRCUIT_BREAKER_THRESHOLD

\* the breaker was open, the reset time went by and isCircuitOpen() was
\* called: flag and counter are both cleared
C21_Witness ==
  /\ br.op = "isCircuitOpen"
  /\ br.before > CIRCUIT_BREAKER_THRESHOLD
  /\ ~br.ret
  /\ ~circuitBreaker.isOpen
  /\ circuitBreaker.failures = 0
  /\ now - circuitBreaker.lastFailure > CIRCUIT_BREAKER_RESET_TIME

\* ------------------------------------------------------------------------
\* Requests in flight together: the cache and the breaker
\* ------------------------------------------------------------------------
\* this step hands the user operation of request r to the relay (the
\* signature is made), or is the relay accepting it
SubmitsUserOp(r) ==
  \/ pc[r] = "signMessage" /\ pc'[r] = "sendUserOperation"
  \/ pc[r] = "sendUserOperation" /\ pc'[r] = "done" /\ resp'[r].status = 200

\* C22: no request submits a user operation for an identifier while a cached
\* MintResult for it exists, also when several requests for the identifier
\* are in flight together; so the relay is handed, and accepts, at most one
\* user operation for an identifier while the result of a mint is cached.
C22_NoSubmitWhileCached ==
  [][ \A r \in DOMAIN pc :
        SubmitsUserOp(r) =>
          ~CacheLive(cache, CacheKey(Identifier(req[r].body)), now) ]_vars

\* ------------------------------------------------------------------------
\* SpecInFlight: two requests in flight together against a breaker one
\* failure away from opening, while the clock runs past its reset time
\* ------------------------------------------------------------------------
\* the breaker after CIRCUIT_BREAKER_THRESHOLD requests failed at time 0:
\* still closed, the next recorded failure opens it
BreakerAtThreshold ==
  [failures |-> CIRCUIT_BREAKER_THRESHOLD, lastFailure |-> 0,
   isOpen |-> FALSE]

InitInFlight ==
  /\ now = 0
  /\ circuitBreaker = BreakerAtThreshold
  /\ cache = <<>>
  /\ pregen = [i \in Identifiers |-> 0]
  /\ shares = [i \in Identifiers |-> {}]
  /\ userOps = [i \in Identifiers |-> 0]
  /\ pc = [r \in Slots |-> "idle"]
  /\ req = [r \in Slots |-> NewReq]
  /\ resp = [r \in Slots |-> NoResponse]
  /\ watch = "none"
  /\ calls = [r \in Slots |-> 0]
  /\ consecFail = NoneFailed
  /\ br = InitBr
  /\ rIn = [operation |-> <<>>, maxRetries |-> 0, retryDelay |-> 0]
  /\ rOut = <<>>

NextInFlight ==
  \/ \E d \in MintTickSteps : Tick(d)
  \/ \E r \in Slots : \E body \in ValidBodies : ReceiveFirst(r, body)
  \/ \E r \in Slots : HandlerStep(r)

SpecInFlight == InitInFlight /\ [][NextInFlight]_vars

\* C23: once the breaker is open it stays open, and its counter is not
\* lowered, as long as the reset time has not gone by since the last recorded
\* failure; no step of a request in flight closes it before that.
C23_OpenUntilTimeout ==
  [][ (/\ circuitBreaker.isOpen
       /\ now' - circuitBreaker.lastFailure <= CIRCUIT_BREAKER_RESET_TIME)
      => /\ circuitBreaker'.isOpen
         /\ circuitBreaker'.failures >= circuitBreaker.failures ]_vars

\* this step is mintHandler answering request r with the result of its mint
\* (server.ts 351-363)
CompletesMint(r) ==
  /\ pc[r] = "sendUserOperation"
  /\ pc'[r] = "done"
  /\ resp'[r].status = 200

\* C23 as the code has it: once the breaker is open, before the reset time
\* has gone by since the last recorded failure, the only step that closes it
\* or lowers its counter is the successful completion of a mint that was
\* already in flight, which resets it; a request received in that time is
\* refused and leaves the breaker as it is, and a failing one keeps it open.
C23_OpenUntilTimeoutOrSuccess ==
  [][ (/\ circuitBreaker.isOpen
       /\ now' - circuitBreaker.lastFailure <= CIRCUIT_BREAKER_RESET_TIME)
      => \/ /\ circuitBreaker'.isOpen
            /\ circuitBreaker'.failures >= circuitBreaker.failures
         \/ /\ \E r \in DOMAIN pc : CompletesMint(r)
            /\ circuitBreaker' = reset(circuitBreaker) ]_vars

\* a request failed and opened the breaker while another was in flight; the
\* other one then completed its mint before the reset time and the breaker
\* is closed, its counter at zero
C23_Witness ==
  \E r \in DOMAIN pc : \E q \in DOMAIN pc :
    /\ r # q
    /\ resp[q].status = 500
    /\ resp[r].status = 200
    /\ resp[r].sentBy = "mintHandler"
    /\ resp[r].cbBefore.isOpen
    /\ now - resp[r].cbBefore.lastFailure <= CIRCUIT_BREAKER_RESET_TIME
    /\ ~circuitBreaker.isOpen
    /\ circuitBreaker.failures = 0

\* ------------------------------------------------------------------------
\* Provisioning that stops part-way
\* ------------------------------------------------------------------------
\* a mint request for identifier i is inside mintHandler
InProgressFor(i) ==
  \E r \in DOMAIN pc :
    /\ pc[r] \notin {"idle", "done"}
    /\ Identifier(req[r].body) = i

\* C24: provisioning is all-or-nothing per identifier: whenever no mint
\* request for an identifier is in progress, the custodial service has a
\* pregenerated wallet for it only if the share store holds a share record
\* for it.
C24_WalletOnlyWithShare ==
  \A i \in Identifiers :
    ~InProgressFor(i) => (pregen[i] > 0 => shares[i] # {})

====
